---- MODULE Spec2Model ----
(***************************************************************************)
(* State-machine model of the service layer of                             *)
(* eCommerceDsNodeExpress_TypeScriptPostgreSQL: userService, cartService,  *)
(* recordService and groupService, with recordsController and the routes   *)
(* of records and groups, each request running as a sequence of SQL        *)
(* statements against one PostgreSQL database.  One SQL statement (one     *)
(* `await sequelize.query`) is one atomic step; requests of different      *)
(* clients interleave between statements, as the Node event loop and the   *)
(* connection pool let them.                                               *)
(*                                                                         *)
(* Money is counted in mills (1/1000 of the currency unit), so that a      *)
(* price with more than two decimals can be told from its rounding.        *)
(***************************************************************************)
EXTENDS Integers, Sequences, FiniteSets, TLC

VARIABLES
    users,      \* table "Users":   set of rows [Email, CartId]
    carts,      \* table "Carts":   set of rows [IdCart, UserEmail, TotalPrice, Enabled]
    details,    \* table "CartDetails": set of rows [IdCartDetail, CartId, RecordId, Amount]
    records,    \* table "Records": function IdRecord -> row (Stock among its columns)
    orders,     \* table "Orders":  set of rows [IdOrder, UserEmail]
    groups,     \* table "Groups":  function IdGroup -> row
    tx,         \* per request: the writes of its open transaction, not yet committed
    pc,         \* per request: the statement it is at
    loc,        \* per request: its arguments and local variables
    res,        \* per request: what it answered, once pc = "done"
    pre,        \* the database as it was when the one request in flight started
    hist,       \* history of the run: what the requests so far asked for and got
    ncalls      \* requests issued so far

db == <<users, carts, details, records, orders, groups>>

vars == <<users, carts, details, records, orders, groups, tx, pc, loc, res, pre, hist, ncalls>>

----------------------------------------------------------------------------
\* Bounds of the model

\* Requests issued in one run of the stock, cart, total-price and user
\* specifications.
MaxStockCalls == 2
MaxCartCalls == 2
MaxTotalCalls == 3
MaxUserCalls == 3

\* Requests issued in one run of the record, update and route
\* specifications.
MaxRecordCalls == 2
MaxUpdateCalls == 2
MaxRouteCalls == 2

\* Largest initial stock of a record.
MaxStock == 2

Procs == {"p1", "p2"}

\* Stock amounts a client asks updateStock to add.
Amounts == {-2, -1, 1}

\* The record ids clients name; 3 names no record of the initial catalog.
RecordIds == {1, 2, 3}

\* The cart ids clients name; 3 names no cart of the initial database.
CartIds == {1, 2, 3}

\* Prices, in mills, a caller asks updateCartTotalPrice to add: 0.01 back,
\* 0.004, 0.01.
Prices == {-10, 4, 10}

\* Emails clients send. "AL" stands for any spelling of "al" that is not
\* trimmed and lower-cased.
Emails == {"al", "AL", "bo", "cy"}

----------------------------------------------------------------------------
\* Values

NoCart == [IdCart |-> 0, UserEmail |-> "", TotalPrice |-> 0, Enabled |-> FALSE]

\* No fields supplied: an object all of whose properties are undefined.
NoData == [c \in {} |-> 0]

NoLoc == [op |-> "", email |-> "", id |-> 0, amt |-> 0, cart |-> NoCart,
          todo |-> <<>>, newStock |-> 0, cartId |-> 0, call |-> 0,
          data |-> NoData, cred |-> "", chain |-> <<>>, passed |-> FALSE,
          reached |-> FALSE]

\* An answer: returned (ok) with val or cart, or thrown (err); http is the
\* status a controller of the model gave it, log what console.error wrote.
NoRes == [ok |-> FALSE, err |-> "", val |-> 0, cart |-> NoCart, http |-> 0, log |-> ""]

\* No transaction: nothing inserted, no row of Users or Orders deleted.
NoTx == [open |-> FALSE, insUser |-> {}, delUsers |-> {}, delOrders |-> {}]

NoSnap == [valid |-> FALSE, users |-> {}, carts |-> {}, records |-> <<>>, orders |-> {},
           groups |-> <<>>]

Snapshot == [valid |-> TRUE, users |-> users, carts |-> carts,
             records |-> records, orders |-> orders, groups |-> groups]

\* Two registered users: al has cart 1, bo has no cart yet.
SeedUsers ==
    {[Email |-> "al", CartId |-> 1, Row |-> 1], [Email |-> "bo", CartId |-> 0, Row |-> 2]}

\* Nothing has been asked yet.
NoHist == [overlapped |-> FALSE,
           added |-> [c \in CartIds |-> 0],
           subcent |-> FALSE,
           stocked |-> [r \in RecordIds |-> 0],
           regOk |-> [e \in Emails |-> 0],
           regErr |-> [e \in Emails |-> 0]]

\* email.trim().toLowerCase()
Norm(e) == IF e = "AL" THEN "al" ELSE IF e = " " THEN "" ELSE e

\* The groups of the initial catalog; no group has id 3.
SeedGroups ==
    (1 :> [NameGroup |-> "Kraftwerk", ImageGroup |-> "", MusicGenreId |-> 1])
    @@ (2 :> [NameGroup |-> "Neu!", ImageGroup |-> "", MusicGenreId |-> 1])

\* The records of the initial catalog, with all their columns; no record
\* has id 3.
SeedCatalog ==
    (1 :> [TitleRecord |-> "Autobahn", YearOfPublication |-> 1974, ImageRecord |-> "",
           Price |-> 10, Stock |-> 1, Discontinued |-> FALSE, GroupId |-> 1])
    @@ (2 :> [TitleRecord |-> "Computer World", YearOfPublication |-> 1981,
              ImageRecord |-> "", Price |-> 10, Stock |-> 0, Discontinued |-> FALSE,
              GroupId |-> 1])

\* The values a client supplies for the columns of a record and of a group.
NewRecord ==
    [TitleRecord |-> "Radio-Activity", YearOfPublication |-> 1975,
     ImageRecord |-> "/img/r.png", Price |-> 12, Stock |-> 5, Discontinued |-> TRUE,
     GroupId |-> 2]

NewGroup == [NameGroup |-> "Can", ImageGroup |-> "/img/g.png", MusicGenreId |-> 2]

\* The properties `cols` of object `obj`; the others are undefined.
Pick(obj, cols) == [c \in cols |-> obj[c]]

----------------------------------------------------------------------------
\* Requests

Idle(p) == pc[p] = "idle"

\* A client issues request `op`: its arguments are stored and its first
\* statement is next. The database is remembered when no other request is
\* in flight, so that the request's effect can be read off at its end.
Issue(p, op, first, args, limit) ==
    /\ Idle(p)
    /\ ncalls < limit
    /\ ncalls' = ncalls + 1
    /\ pc' = [pc EXCEPT ![p] = first]
    /\ loc' = [loc EXCEPT ![p] = [args EXCEPT !.op = op, !.call = ncalls + 1]]
    /\ res' = [res EXCEPT ![p] = NoRes]
    /\ pre' = IF \A q \in Procs \ {p} : Idle(q) THEN Snapshot ELSE NoSnap
    /\ hist' = [hist EXCEPT !.overlapped = @ \/ \E q \in Procs \ {p} : ~Idle(q)]
    /\ UNCHANGED <<db, tx>>

\* The request ends with answer r.
Answer(p, r) ==
    /\ pc' = [pc EXCEPT ![p] = "done"]
    /\ res' = [res EXCEPT ![p] = r]

\* The client has its answer; the request is over.
Finish(p) ==
    /\ pc[p] = "done"
    /\ pc' = [pc EXCEPT ![p] = "idle"]
    /\ loc' = [loc EXCEPT ![p] = NoLoc]
    /\ res' = [res EXCEPT ![p] = NoRes]
    /\ pre' = NoSnap
    /\ UNCHANGED <<db, tx, hist, ncalls>>

----------------------------------------------------------------------------
\* recordService

\* getById: SELECT * FROM "Records" WHERE "IdRecord" = :id
RecordExists(id) == id \in DOMAIN records

\* The check without Math.abs.
DecreaseTooLargeNoAbs(amount, stock) ==
    amount < 0 /\ amount > stock

\* The check of updateStock: a decrease may not exceed the stock read.
DecreaseTooLarge(amount, stock) ==
    amount < 0 /\ (0 - amount) > stock

\* The UPDATE without its WHERE clause.
SetStockAll(id, newStock) ==
    [r \in DOMAIN records |-> [records[r] EXCEPT !.Stock = newStock]]

\* UPDATE "Records" SET "Stock" = :newStock WHERE "IdRecord" = :id
SetStock(id, newStock) ==
    IF id \in DOMAIN records
    THEN [records EXCEPT ![id] = [@ EXCEPT !.Stock = newStock]]
    ELSE records

\* What the updateStock controller answers.
StockUpdated(newStock) ==
    [NoRes EXCEPT !.ok = TRUE, !.val = newStock, !.http = 200]

BadRequest(msg) == [NoRes EXCEPT !.err = msg, !.http = 400]

\* A service function threw and no controller of the model caught it.
Thrown(msg) == [NoRes EXCEPT !.err = msg]

\* PUT /api/records/:id/updateStock/:amount
CallUpdateStock(p) ==
    \E id \in RecordIds, amount \in Amounts :
        Issue(p, "updateStock", "us_read", [NoLoc EXCEPT !.id = id, !.amt = amount],
              MaxStockCalls)

\* updateStock throws: the updateStock controller answers 400; in
\* disableCart nothing catches it.
StockThrow(p, msg) ==
    /\ Answer(p, IF loc[p].op = "updateStock" THEN BadRequest(msg) ELSE Thrown(msg))
    /\ UNCHANGED loc

\* The loop of disableCart left after its first item.
StockReturnBreak(p, newStock) ==
    IF loc[p].op = "updateStock"
    THEN /\ Answer(p, StockUpdated(newStock))
         /\ UNCHANGED loc
    ELSE /\ pc' = [pc EXCEPT ![p] = "dc_loop"]
         /\ loc' = [loc EXCEPT ![p].todo = <<>>]
         /\ UNCHANGED res

\* updateStock returns { newStock }: to the controller, or to the loop of
\* disableCart.
StockReturn(p, newStock) ==
    IF loc[p].op = "updateStock"
    THEN /\ Answer(p, StockUpdated(newStock))
         /\ UNCHANGED loc
    ELSE /\ pc' = [pc EXCEPT ![p] = "dc_loop"]
         /\ loc' = [loc EXCEPT ![p].todo = Tail(@)]
         /\ UNCHANGED res

\* updateStock, up to its UPDATE: read the record, check the amount.
US_Read(p) ==
    /\ pc[p] = "us_read"
    /\ LET id == loc[p].id
           amount == loc[p].amt
       IN IF ~RecordExists(id)
          THEN StockThrow(p, "Record not found")
          ELSE IF DecreaseTooLarge(amount, records[id].Stock)
          THEN StockThrow(p, "The decrease cannot be greater than the available stock")
          ELSE /\ pc' = [pc EXCEPT ![p] = "us_write"]
               /\ loc' = [loc EXCEPT ![p].newStock = records[id].Stock + amount]
               /\ UNCHANGED res
    /\ UNCHANGED <<db, tx, pre, hist, ncalls>>

\* updateStock's UPDATE, and its return.
US_Write(p) ==
    /\ pc[p] = "us_write"
    /\ records' = SetStock(loc[p].id, loc[p].newStock)
    /\ StockReturn(p, loc[p].newStock)
    /\ hist' = [hist EXCEPT !.stocked[loc[p].id] = @ + loc[p].amt]
    /\ UNCHANGED <<users, carts, details, groups, orders, tx, pre, ncalls>>

\* The columns update can set, in the order of its tests.
RecordColumns ==
    {"TitleRecord", "YearOfPublication", "ImageRecord", "Price", "Stock",
     "Discontinued", "GroupId"}

\* The fields pushed: the columns whose value is not undefined.
Fields(columns, data) == {c \in columns : c \in DOMAIN data}

\* SET ${fields.join(", ")} without the field "Discontinued".
SetRowButDiscontinued(row, fields, data) ==
    [c \in DOMAIN row |-> IF c \in fields \ {"Discontinued"} THEN data[c] ELSE row[c]]

\* SET ${fields.join(", ")} on one row.
SetRow(row, fields, data) ==
    [c \in DOMAIN row |-> IF c \in fields THEN data[c] ELSE row[c]]

\* UPDATE "Records" SET ... WHERE "IdRecord" = :id
UpdateRecord(id, data) ==
    IF id \in DOMAIN records
    THEN [records EXCEPT ![id] = SetRow(@, Fields(RecordColumns, data), data)]
    ELSE records

\* rowCount of a statement with WHERE id = :id on table tbl.
RowCount(tbl, id) == IF id \in DOMAIN tbl THEN 1 ELSE 0

\* The DELETE without its WHERE clause.
DeleteAllRecords(id) == [r \in {} |-> records[r]]

\* DELETE FROM "Records" WHERE "IdRecord" = :id
DeleteRecord(id) == [r \in DOMAIN records \ {id} |-> records[r]]

\* The row create inserts, and RETURNING "IdRecord": the next value of the
\* sequence of the table, which the request numbered `call` draws.
NextIdRecord(call) == Cardinality(DOMAIN SeedCatalog) + call

InsertRecord(id, recordData) == records @@ (id :> recordData)

\* A controller's answer with status `status`; val is what the service
\* function returned, where it is a boolean (1 for true).
Http(status, val, msg) ==
    [NoRes EXCEPT !.ok = status < 400, !.http = status, !.val = val, !.err = msg]

\* recordService.update(id, recordData), called by a client of the service
\* with some of the columns.
UpdateSets == {{}, RecordColumns} \cup {{c} : c \in RecordColumns}

CallRecordUpdate(p) ==
    \E id \in {1, 3}, cols \in UpdateSets :
        Issue(p, "recordService.update", "ru_update",
              [NoLoc EXCEPT !.id = id, !.data = Pick(NewRecord, cols)], MaxUpdateCalls)

\* update: no UPDATE is sent when no field was pushed; otherwise the one
\* UPDATE, and rowCount > 0 returned. The controller updateRecord answers
\* 200 whatever was returned.
RU_Update(p) ==
    /\ pc[p] = "ru_update"
    /\ LET id == loc[p].id
           data == loc[p].data
           sent == Fields(RecordColumns, data) # {}
           returned == IF sent /\ RowCount(records, id) > 0 THEN 1 ELSE 0
       IN /\ records' = IF sent THEN UpdateRecord(id, data) ELSE records
          /\ IF loc[p].op = "updateRecord"
             THEN Answer(p, Http(200, returned, ""))
             ELSE Answer(p, [NoRes EXCEPT !.ok = TRUE, !.val = returned])
    /\ UNCHANGED <<users, carts, details, groups, orders, tx, loc, pre, hist, ncalls>>

\* DELETE /api/records/:id, once the request has reached the controller.
CallDeleteRecord(p) ==
    \E id \in RecordIds :
        Issue(p, "deleteRecord", "rm_get", [NoLoc EXCEPT !.id = id], MaxRecordCalls)

\* remove: check if the record exists; the controller answers 404 when
\* remove returns false.
RM_Get(p) ==
    /\ pc[p] = "rm_get"
    /\ IF RecordExists(loc[p].id)
       THEN /\ pc' = [pc EXCEPT ![p] = "rm_delete"]
            /\ UNCHANGED res
       ELSE Answer(p, Http(404, 0, "Record not found"))
    /\ UNCHANGED <<db, tx, loc, pre, hist, ncalls>>

\* remove: the DELETE, and return true; the controller answers 204.
RM_Delete(p) ==
    /\ pc[p] = "rm_delete"
    /\ records' = DeleteRecord(loc[p].id)
    /\ Answer(p, Http(204, 1, ""))
    /\ UNCHANGED <<users, carts, details, groups, orders, tx, loc, pre, hist, ncalls>>

----------------------------------------------------------------------------
\* groupService

GroupColumns == {"NameGroup", "ImageGroup", "MusicGenreId"}

\* getById: SELECT g.* ... FROM "Groups" g ... WHERE g."IdGroup" = :id
GroupExists(id) == id \in DOMAIN groups

\* UPDATE "Groups" SET ... WHERE "IdGroup" = :id
UpdateGroup(id, data) ==
    IF id \in DOMAIN groups
    THEN [groups EXCEPT ![id] = SetRow(@, Fields(GroupColumns, data), data)]
    ELSE groups

\* DELETE FROM "Groups" WHERE "IdGroup" = :id
DeleteGroup(id) == [g \in DOMAIN groups \ {id} |-> groups[g]]

\* INSERT INTO "Groups" ... RETURNING "IdGroup"
NextIdGroup(call) == Cardinality(DOMAIN SeedGroups) + call

InsertGroup(id, groupData) == groups @@ (id :> groupData)

\* groupService.update(id, groupData), called by a client of the service
\* with some of the columns.
CallGroupUpdate(p) ==
    \E id \in {1, 3}, cols \in SUBSET GroupColumns :
        Issue(p, "groupService.update", "gu_update",
              [NoLoc EXCEPT !.id = id, !.data = Pick(NewGroup, cols)], MaxUpdateCalls)

\* update: as recordService.update, on "Groups".
GU_Update(p) ==
    /\ pc[p] = "gu_update"
    /\ LET id == loc[p].id
           data == loc[p].data
           sent == Fields(GroupColumns, data) # {}
           returned == IF sent /\ RowCount(groups, id) > 0 THEN 1 ELSE 0
       IN /\ groups' = IF sent THEN UpdateGroup(id, data) ELSE groups
          /\ IF loc[p].op = "updateGroup"
             THEN Answer(p, Http(200, returned, ""))
             ELSE Answer(p, [NoRes EXCEPT !.ok = TRUE, !.val = returned])
    /\ UNCHANGED <<users, carts, details, records, orders, tx, loc, pre, hist, ncalls>>

\* groupService.remove(id), called by a client of the service.
CallGroupRemove(p) ==
    \E id \in {1, 2} :
        Issue(p, "groupService.remove", "gd_delete", [NoLoc EXCEPT !.id = id],
              MaxRecordCalls)

\* remove: the one DELETE.
GD_Delete(p) ==
    /\ pc[p] = "gd_delete"
    /\ groups' = DeleteGroup(loc[p].id)
    /\ IF loc[p].op = "deleteGroup"
       THEN Answer(p, Http(204, 0, ""))
       ELSE Answer(p, [NoRes EXCEPT !.ok = TRUE])
    /\ UNCHANGED <<users, carts, details, records, orders, tx, loc, pre, hist, ncalls>>

\* create: the one INSERT.
GC_Insert(p) ==
    /\ pc[p] = "gc_insert"
    /\ groups' = InsertGroup(NextIdGroup(loc[p].call), loc[p].data)
    /\ Answer(p, Http(201, NextIdGroup(loc[p].call), ""))
    /\ UNCHANGED <<users, carts, details, records, orders, tx, loc, pre, hist, ncalls>>

----------------------------------------------------------------------------
\* recordsController

\* The fields createRecord requires.
RequiredFields == {"TitleRecord", "YearOfPublication", "Price", "Stock", "GroupId"}

\* A JSON body with all the fields of a record of group g.
CreateBody(g) ==
    [TitleRecord |-> "Radio-Activity", YearOfPublication |-> 1975, Price |-> 12,
     Stock |-> 5, Discontinued |-> "true", GroupId |-> g]

\* The bodies clients post: complete for a group that exists (2) and for
\* one that does not (3), without title, with Stock 0, without GroupId.
CreateBodies ==
    {CreateBody(2), CreateBody(3),
     Pick(CreateBody(2), DOMAIN CreateBody(2) \ {"TitleRecord"}),
     [CreateBody(2) EXCEPT !.Stock = 0],
     Pick(CreateBody(2), DOMAIN CreateBody(2) \ {"GroupId"})}

\* The falsy value of each required field.
Falsy == [TitleRecord |-> "", YearOfPublication |-> 0, Price |-> 0, Stock |-> 0, GroupId |-> 0]

\* !TitleRecord || !YearOfPublication || !Price || !Stock || !GroupId
MissingRequired(body) ==
    \E c \in RequiredFields : c \notin DOMAIN body \/ body[c] = Falsy[c]

\* Number(GroupId) of a body without GroupId is NaN.
GroupIdIsNaN(body) == "GroupId" \notin DOMAIN body

\* newRecord, the object createRecord passes to recordService.create.
NewRecordOf(body) ==
    [TitleRecord |-> body.TitleRecord,
     YearOfPublication |-> body.YearOfPublication,
     Price |-> body.Price,
     Stock |-> body.Stock,
     Discontinued |-> ("Discontinued" \in DOMAIN body /\ body.Discontinued = "true"),
     GroupId |-> body.GroupId,
     ImageRecord |-> ""]

\* POST /api/records, once the request has reached the controller.
CallCreateRecord(p) ==
    \E body \in CreateBodies :
        Issue(p, "createRecord", "cr_group", [NoLoc EXCEPT !.data = body], MaxRecordCalls)

\* createRecord: validate that the group exists, then that the required
\* fields are there. The lookup is groupService.getById(Number(GroupId)):
\* with NaN the statement reads  WHERE g."IdGroup" = NaN , which PostgreSQL
\* refuses, and the catch of the controller answers 500.
CR_Group(p) ==
    /\ pc[p] = "cr_group"
    /\ LET body == loc[p].data
       IN IF GroupIdIsNaN(body)
          THEN /\ Answer(p, Http(500, 0, "Server error"))
               /\ UNCHANGED loc
          ELSE IF ~GroupExists(body.GroupId)
          THEN /\ Answer(p, Http(400, 0, "The Group does not exist"))
               /\ UNCHANGED loc
          ELSE IF MissingRequired(body)
          THEN /\ Answer(p, Http(400, 0, "Missing required fields"))
               /\ UNCHANGED loc
          ELSE /\ pc' = [pc EXCEPT ![p] = "cr_insert"]
               /\ loc' = [loc EXCEPT ![p].id = NextIdRecord(loc[p].call)]
               /\ UNCHANGED res
    /\ UNCHANGED <<db, tx, pre, hist, ncalls>>

\* createRecord: recordService.create, one INSERT, answered with 201. When
\* the group has been deleted since the check, the INSERT is carried out or
\* refused, as the foreign keys of "Records" have it.
CR_Insert(p) ==
    /\ pc[p] = "cr_insert"
    /\ \/ /\ records' = InsertRecord(loc[p].id, NewRecordOf(loc[p].data))
          /\ Answer(p, Http(201, loc[p].id, ""))
       \/ /\ ~GroupExists(loc[p].data.GroupId)
          /\ UNCHANGED records
          /\ Answer(p, Http(500, 0, "Server error"))
    /\ UNCHANGED <<users, carts, details, groups, orders, tx, loc, pre, hist, ncalls>>

\* updatedData, the object updateRecord passes to recordService.update:
\* the fields of the body, and those of the record read for the others.
UpdatedDataOf(body, record) ==
    [c \in RecordColumns |->
        IF c = "Discontinued" /\ c \in DOMAIN body THEN body[c] = "true"
        ELSE IF c # "ImageRecord" /\ c \in DOMAIN body THEN body[c]
        ELSE record[c]]

\* updateRecord: read the record, 404 without it; if (GroupId) the group
\* is looked up next.
UR_Get(p) ==
    /\ pc[p] = "ur_get"
    /\ LET id == loc[p].id
           body == loc[p].data
       IN IF ~RecordExists(id)
          THEN /\ Answer(p, Http(404, 0, "Record not found"))
               /\ UNCHANGED loc
          ELSE /\ loc' = [loc EXCEPT ![p].data = UpdatedDataOf(body, records[id])]
               /\ pc' = [pc EXCEPT ![p] =
                            IF "GroupId" \in DOMAIN body /\ body.GroupId # Falsy.GroupId
                            THEN "ur_group" ELSE "ru_update"]
               /\ UNCHANGED res
    /\ UNCHANGED <<db, tx, pre, hist, ncalls>>

\* updateRecord: the group of the body must exist; recordService.update
\* is called next.
UR_Group(p) ==
    /\ pc[p] = "ur_group"
    /\ IF ~GroupExists(loc[p].data.GroupId)
       THEN Answer(p, Http(400, 0, "The Group does not exist"))
       ELSE /\ pc' = [pc EXCEPT ![p] = "ru_update"]
            /\ UNCHANGED res
    /\ UNCHANGED <<db, tx, loc, pre, hist, ncalls>>

----------------------------------------------------------------------------
\* recordsRoutes, groupsRoutes

\* The routes documented as admin-only.
AdminRoutes ==
    {"POST /api/records", "PUT /api/records/:id", "DELETE /api/records/:id",
     "POST /api/groups", "PUT /api/groups/:id", "DELETE /api/groups/:id"}

\* The controller a route ends with.
Controller(route) ==
    CASE route = "POST /api/records" -> "createRecord"
      [] route = "PUT /api/records/:id" -> "updateRecord"
      [] route = "DELETE /api/records/:id" -> "deleteRecord"
      [] route = "POST /api/groups" -> "createGroup"
      [] route = "PUT /api/groups/:id" -> "updateGroup"
      [] route = "DELETE /api/groups/:id" -> "deleteGroup"

Controllers == {Controller(route) : route \in AdminRoutes}

\* A route registered with its controller alone, as the updateStock route is.
HandlersUnguarded(route) == <<Controller(route)>>

\* The handlers router.post, router.put and router.delete register for a
\* route, in their order.
Handlers(route) ==
    CASE route = "POST /api/records" -> <<"authMiddleware", "upload", "createRecord">>
      [] route = "PUT /api/records/:id" -> <<"authMiddleware", "upload", "updateRecord">>
      [] route = "DELETE /api/records/:id" -> <<"authMiddleware", "deleteRecord">>
      [] route = "POST /api/groups" -> <<"authMiddleware", "uploadIfExists", "createGroup">>
      [] route = "PUT /api/groups/:id" -> <<"authMiddleware", "uploadIfExists", "updateGroup">>
      [] route = "DELETE /api/groups/:id" -> <<"authMiddleware", "deleteGroup">>

\* The credentials a request carries: none, a token of a User, of an Admin.
Credentials == {"none", "User", "Admin"}

\* authMiddleware(role) passes the request on when its token is of that role.
Authorized(cred, role) == cred = role

\* The status authMiddleware answers a request it does not pass on.
Rejected(cred) == Http(IF cred = "none" THEN 401 ELSE 403, 0, "Access denied")

\* The first statement of a controller of recordsController.
RecordsStatement(controller) ==
    CASE controller = "createRecord" -> "cr_group"
      [] controller = "updateRecord" -> "ur_get"
      [] controller = "deleteRecord" -> "rm_get"

\* The one statement of a controller of groupsController: the call of
\* groupService.create, update or remove.
GroupsStatement(controller) ==
    CASE controller = "createGroup" -> "gc_insert"
      [] controller = "updateGroup" -> "gu_update"
      [] controller = "deleteGroup" -> "gd_delete"

\* The body a client sends to a route.
BodyOf(route) ==
    CASE route = "POST /api/records" -> CreateBody(2)
      [] route = "PUT /api/records/:id" -> Pick(CreateBody(2), {"Price", "GroupId"})
      [] route = "POST /api/groups" -> NewGroup
      [] route = "PUT /api/groups/:id" -> Pick(NewGroup, {"NameGroup"})
      [] OTHER -> NoData

\* A client sends a request to an admin-only route: Express runs the
\* handlers of the route one after the other.
CallRoute(p) ==
    \E route \in AdminRoutes, cred \in Credentials :
        Issue(p, Controller(route), "express",
              [NoLoc EXCEPT !.chain = Handlers(route), !.cred = cred, !.id = 1,
                            !.data = BodyOf(route)],
              MaxRouteCalls)

\* The next handler is authMiddleware('Admin'): next(), or an answer.
MW_Auth(p) ==
    /\ pc[p] = "express"
    /\ loc[p].chain # <<>> /\ Head(loc[p].chain) = "authMiddleware"
    /\ IF Authorized(loc[p].cred, "Admin")
       THEN /\ loc' = [loc EXCEPT ![p].chain = Tail(@), ![p].passed = TRUE]
            /\ UNCHANGED <<pc, res>>
       ELSE /\ Answer(p, Rejected(loc[p].cred))
            /\ UNCHANGED loc
    /\ UNCHANGED <<db, tx, pre, hist, ncalls>>

\* The next handler is upload.single('Photo'), or uploadIfExists: next().
MW_Upload(p) ==
    /\ pc[p] = "express"
    /\ loc[p].chain # <<>> /\ Head(loc[p].chain) \in {"upload", "uploadIfExists"}
    /\ loc' = [loc EXCEPT ![p].chain = Tail(@)]
    /\ UNCHANGED <<db, tx, pc, res, pre, hist, ncalls>>

\* The next handler is the controller: it runs.
Dispatch(p) ==
    /\ pc[p] = "express"
    /\ loc[p].chain # <<>> /\ Head(loc[p].chain) \in Controllers
    /\ LET controller == Head(loc[p].chain)
       IN pc' = [pc EXCEPT ![p] =
                    IF controller \in {"createRecord", "updateRecord", "deleteRecord"}
                    THEN RecordsStatement(controller)
                    ELSE GroupsStatement(controller)]
    /\ loc' = [loc EXCEPT ![p].chain = <<>>, ![p].reached = TRUE]
    /\ UNCHANGED <<db, tx, res, pre, hist, ncalls>>

----------------------------------------------------------------------------
\* cartService

\* The rows a SELECT ... LIMIT 1 may return: any one of the matching rows,
\* or none (NoCart) when nothing matches.
LimitOne(rows) == IF rows = {} THEN {NoCart} ELSE rows

\* SELECT * FROM "Carts" WHERE "UserEmail" = :email AND "Enabled" = true
ActiveCartsExact(email) ==
    {c \in carts : c.UserEmail = email /\ c.Enabled}

\* SELECT * FROM "Carts" WHERE LOWER(TRIM("UserEmail")) = :email AND "Enabled" = true
ActiveCartsFolded(email) ==
    {c \in carts : Norm(c.UserEmail) = email /\ c.Enabled}

\* SELECT * FROM "Carts" WHERE "UserEmail" = :email
CartsExact(email) == {c \in carts : c.UserEmail = email}

\* SELECT * FROM "Carts" WHERE LOWER(TRIM("UserEmail")) = :email
CartsFolded(email) == {c \in carts : Norm(c.UserEmail) = email}

\* getCartById: SELECT * FROM "Carts" WHERE "IdCart" = :id
CartsById(id) == {c \in carts : c.IdCart = id}

\* The SELECT without its WHERE clause.
AnyUser(email) == users

\* SELECT "Email" FROM "Users" WHERE "Email" = :email
UsersByEmail(email) == {u \in users : u.Email = email}

\* cartDetailService.getCartDetailsByCartId
CartDetailsOf(cartId) == {d \in details : d.CartId = cartId}

\* The next value of the IdCart sequence.
NextIdCart ==
    1 + Cardinality(carts)

\* A plain INSERT, on a table without unique index on "UserEmail".
InsertCart(email) ==
    carts \cup {[IdCart |-> NextIdCart, UserEmail |-> email,
                 TotalPrice |-> 0, Enabled |-> TRUE]}

\* INSERT INTO "Carts" ("UserEmail", "TotalPrice", "Enabled") VALUES (:email, 0, true)
\*   ON CONFLICT ("UserEmail") DO UPDATE SET "Enabled" = EXCLUDED."Enabled", "TotalPrice" = 0
UpsertCart(email) ==
    IF \E c \in carts : c.UserEmail = email
    THEN {IF c.UserEmail = email
          THEN [c EXCEPT !.Enabled = TRUE, !.TotalPrice = 0]
          ELSE c : c \in carts}
    ELSE carts \cup {[IdCart |-> NextIdCart, UserEmail |-> email,
                      TotalPrice |-> 0, Enabled |-> TRUE]}

\* The UPDATE without its WHERE clause.
SetTotalPriceAll(cartId, total) ==
    {[c EXCEPT !.TotalPrice = total] : c \in carts}

\* UPDATE "Carts" SET "TotalPrice" = :total WHERE "IdCart" = :cartId
SetTotalPrice(cartId, total) ==
    {IF c.IdCart = cartId THEN [c EXCEPT !.TotalPrice = total] ELSE c : c \in carts}

\* UPDATE "Carts" SET "Enabled" = false WHERE "IdCart" = :cartId
SetDisabled(cartId) ==
    {IF c.IdCart = cartId THEN [c EXCEPT !.Enabled = FALSE] ELSE c : c \in carts}

\* The UPDATE with the SET clause of createCart's upsert, which also
\* resets the total.
SetEnabledResetTotal(email) ==
    {IF c.UserEmail = email /\ ~c.Enabled
     THEN [c EXCEPT !.Enabled = TRUE, !.TotalPrice = 0] ELSE c : c \in carts}

\* UPDATE "Carts" SET "Enabled" = true WHERE "UserEmail" = :email AND "Enabled" = false
SetEnabled(email) ==
    {IF c.UserEmail = email /\ ~c.Enabled THEN [c EXCEPT !.Enabled = TRUE] ELSE c : c \in carts}

\* ... RETURNING *: the rows the UPDATE of enableCart changed, as they are after it.
EnabledRows(email) ==
    {[c EXCEPT !.Enabled = TRUE] : c \in {c \in carts : c.UserEmail = email /\ ~c.Enabled}}

\* (x).toFixed(2), on mills: the nearest whole number of cents. Prices of the
\* model never lie halfway between two cents.
ToFixed2(x) ==
    IF x >= 0 THEN ((x + 5) \div 10) * 10 ELSE 0 - ((((0 - x) + 5) \div 10) * 10)

\* All orders in which a SELECT without ORDER BY may return the rows.
Orderings(rows) ==
    {s \in [1..Cardinality(rows) -> rows] : \A i, j \in DOMAIN s : i # j => s[i] # s[j]}

CartOk(cart) == [NoRes EXCEPT !.ok = TRUE, !.val = cart.IdCart, !.cart = cart]

\* createCart returns `cart`: to its caller, or to createUser.
CartReturn(p, cart) ==
    IF loc[p].op = "createUser"
    THEN /\ pc' = [pc EXCEPT ![p] = "cu_setcart"]
         /\ loc' = [loc EXCEPT ![p].cart = cart]
         /\ UNCHANGED res
    ELSE /\ Answer(p, CartOk(cart))
         /\ loc' = [loc EXCEPT ![p].cart = cart]

\* createCart throws: createUser catches it and goes on without a cart.
CartThrow(p, code) ==
    IF loc[p].op = "createUser"
    THEN /\ pc' = [pc EXCEPT ![p] = "cu_return"]
         /\ UNCHANGED <<loc, res>>
    ELSE /\ Answer(p, Thrown(code))
         /\ UNCHANGED loc

CallCreateCart(p) ==
    \E e \in Emails :
        Issue(p, "createCart", "cc_user", [NoLoc EXCEPT !.email = e], MaxCartCalls)

\* createCart: first verify the user exists.
CC_User(p) ==
    /\ pc[p] = "cc_user"
    /\ IF UsersByEmail(Norm(loc[p].email)) = {}
       THEN CartThrow(p, "USER_NOT_FOUND")
       ELSE /\ pc' = [pc EXCEPT ![p] = "cc_active1"]
            /\ UNCHANGED <<loc, res>>
    /\ UNCHANGED <<db, tx, pre, hist, ncalls>>

\* createCart, with the active cart it found: a positive total is checked
\* against the cart's items, any other cart is returned as it is.
CC_Existing(p, cart) ==
    IF cart.TotalPrice > 0
    THEN /\ pc' = [pc EXCEPT ![p] = "cc_details"]
         /\ loc' = [loc EXCEPT ![p].cart = cart]
         /\ UNCHANGED res
    ELSE CartReturn(p, cart)

\* getActiveCartByEmail, first query (exact match).
CC_Active1(p) ==
    /\ pc[p] = "cc_active1"
    /\ \E c \in LimitOne(ActiveCartsExact(Norm(loc[p].email))) :
        IF c = NoCart
        THEN /\ pc' = [pc EXCEPT ![p] = "cc_active2"]
             /\ UNCHANGED <<loc, res>>
        ELSE CC_Existing(p, c)
    /\ UNCHANGED <<db, tx, pre, hist, ncalls>>

\* getActiveCartByEmail, second query (case-insensitive match).
CC_Active2(p) ==
    /\ pc[p] = "cc_active2"
    /\ \E c \in LimitOne(ActiveCartsFolded(Norm(loc[p].email))) :
        IF c = NoCart
        THEN /\ pc' = [pc EXCEPT ![p] = "cc_insert"]
             /\ UNCHANGED <<loc, res>>
        ELSE CC_Existing(p, c)
    /\ UNCHANGED <<db, tx, pre, hist, ncalls>>

\* createCart: the items of the existing cart with a positive total.
CC_Details(p) ==
    /\ pc[p] = "cc_details"
    /\ IF CartDetailsOf(loc[p].cart.IdCart) = {}
       THEN /\ pc' = [pc EXCEPT ![p] = "cc_reset"]
            /\ UNCHANGED <<loc, res>>
       ELSE CartReturn(p, loc[p].cart)
    /\ UNCHANGED <<db, tx, pre, hist, ncalls>>

\* createCart: reset the total of an existing cart without items.
CC_Reset(p) ==
    /\ pc[p] = "cc_reset"
    /\ carts' = SetTotalPrice(loc[p].cart.IdCart, 0)
    /\ CartReturn(p, [loc[p].cart EXCEPT !.TotalPrice = 0])
    /\ UNCHANGED <<users, details, groups, records, orders, tx, pre, hist, ncalls>>

\* createCart: no active cart was found; insert one, or re-enable the
\* user's row. RETURNING gives the row as it is after the statement.
CC_Insert(p) ==
    /\ pc[p] = "cc_insert"
    /\ carts' = UpsertCart(Norm(loc[p].email))
    /\ \E c \in {c \in carts' : c.UserEmail = Norm(loc[p].email)} :
          CartReturn(p, c)
    /\ UNCHANGED <<users, details, groups, records, orders, tx, pre, hist, ncalls>>

CallDisableCart(p) ==
    \E e \in Emails :
        Issue(p, "disableCart", "dc_get1", [NoLoc EXCEPT !.email = e], MaxCartCalls)

\* disableCart, with the cart it found.
DC_Found(p, cart) ==
    /\ pc' = [pc EXCEPT ![p] = "dc_details"]
    /\ loc' = [loc EXCEPT ![p].cart = cart]
    /\ UNCHANGED res

\* getCartByEmail, first query (exact match, any status).
DC_Get1(p) ==
    /\ pc[p] = "dc_get1"
    /\ \E c \in LimitOne(CartsExact(Norm(loc[p].email))) :
        IF c = NoCart
        THEN /\ pc' = [pc EXCEPT ![p] = "dc_get2"]
             /\ UNCHANGED <<loc, res>>
        ELSE DC_Found(p, c)
    /\ UNCHANGED <<db, tx, pre, hist, ncalls>>

\* getCartByEmail, second query (case-insensitive match, any status).
DC_Get2(p) ==
    /\ pc[p] = "dc_get2"
    /\ \E c \in LimitOne(CartsFolded(Norm(loc[p].email))) :
        IF c = NoCart
        THEN /\ pc' = [pc EXCEPT ![p] = "dc_active1"]
             /\ UNCHANGED <<loc, res>>
        ELSE DC_Found(p, c)
    /\ UNCHANGED <<db, tx, pre, hist, ncalls>>

\* disableCart falls back on getActiveCartByEmail: its first query.
DC_Active1(p) ==
    /\ pc[p] = "dc_active1"
    /\ \E c \in LimitOne(ActiveCartsExact(Norm(loc[p].email))) :
        IF c = NoCart
        THEN /\ pc' = [pc EXCEPT ![p] = "dc_active2"]
             /\ UNCHANGED <<loc, res>>
        ELSE DC_Found(p, c)
    /\ UNCHANGED <<db, tx, pre, hist, ncalls>>

\* disableCart falls back on getActiveCartByEmail: its second query.
DC_Active2(p) ==
    /\ pc[p] = "dc_active2"
    /\ \E c \in LimitOne(ActiveCartsFolded(Norm(loc[p].email))) :
        IF c = NoCart
        THEN /\ Answer(p, Thrown("No cart found for this user"))
             /\ UNCHANGED loc
        ELSE DC_Found(p, c)
    /\ UNCHANGED <<db, tx, pre, hist, ncalls>>

\* disableCart reads the items of the cart.
DC_Details(p) ==
    /\ pc[p] = "dc_details"
    /\ \E s \in Orderings(CartDetailsOf(loc[p].cart.IdCart)) :
          loc' = [loc EXCEPT ![p].todo = s]
    /\ pc' = [pc EXCEPT ![p] = "dc_loop"]
    /\ UNCHANGED <<db, tx, res, pre, hist, ncalls>>

\* disableCart: the loop that returns the stock of each item, then the
\* test of the Enabled flag that was read with the cart.
DC_Loop(p) ==
    /\ pc[p] = "dc_loop"
    /\ IF loc[p].todo # <<>>
       THEN /\ pc' = [pc EXCEPT ![p] = "us_read"]
            /\ loc' = [loc EXCEPT ![p].id = Head(loc[p].todo).RecordId,
                                  ![p].amt = Head(loc[p].todo).Amount]
            /\ UNCHANGED res
       ELSE IF loc[p].cart.Enabled
       THEN /\ pc' = [pc EXCEPT ![p] = "dc_disable"]
            /\ UNCHANGED <<loc, res>>
       ELSE /\ Answer(p, [NoRes EXCEPT !.ok = TRUE, !.val = loc[p].cart.IdCart])
            /\ UNCHANGED loc
    /\ UNCHANGED <<db, tx, pre, hist, ncalls>>

\* disableCart: disable the cart and return its id.
DC_Disable(p) ==
    /\ pc[p] = "dc_disable"
    /\ carts' = SetDisabled(loc[p].cart.IdCart)
    /\ Answer(p, [NoRes EXCEPT !.ok = TRUE, !.val = loc[p].cart.IdCart])
    /\ UNCHANGED <<users, details, groups, records, orders, tx, loc, pre, hist, ncalls>>

CallEnableCart(p) ==
    \E e \in Emails :
        Issue(p, "enableCart", "ec_update", [NoLoc EXCEPT !.email = e], MaxCartCalls)

\* enableCart: one UPDATE ... RETURNING *, then the test of its result.
EC_Update(p) ==
    /\ pc[p] = "ec_update"
    /\ carts' = SetEnabled(loc[p].email)
    /\ \E c \in LimitOne(EnabledRows(loc[p].email)) :
        IF c = NoCart
        THEN Answer(p, Thrown("No disabled cart found for this user to enable"))
        ELSE Answer(p, CartOk(c))
    /\ UNCHANGED <<users, details, groups, records, orders, tx, loc, pre, hist, ncalls>>

\* The emails clients ask the cart status of: the empty string and a blank
\* one among them.
StatusEmails == Emails \cup {"", " "}

\* SELECT "Enabled" FROM "Carts" WHERE "UserEmail" = :email LIMIT 1
StatusRows(email) == {c \in carts : c.UserEmail = email}

\* The status with true for a user without cart row.
StatusOfNoRowTrue(cart) == IF cart = NoCart THEN TRUE ELSE cart.Enabled

\* cart.length > 0 ? cart[0].Enabled : false
StatusOf(cart) == IF cart = NoCart THEN FALSE ELSE cart.Enabled

\* The CartStatusDTO { Enabled } returned.
CartStatus(enabled) ==
    [NoRes EXCEPT !.ok = TRUE, !.cart = [NoCart EXCEPT !.Enabled = enabled]]

CallGetCartStatus(p) ==
    \E e \in StatusEmails :
        Issue(p, "getCartStatus", "gs_select", [NoLoc EXCEPT !.email = e], MaxCartCalls)

\* getCartStatus: the test of the email, then its one SELECT.
GS_Select(p) ==
    /\ pc[p] = "gs_select"
    /\ IF loc[p].email = ""
       THEN Answer(p, Thrown("Email is required"))
       ELSE \E c \in LimitOne(StatusRows(Norm(loc[p].email))) :
               Answer(p, CartStatus(StatusOf(c)))
    /\ UNCHANGED <<db, tx, loc, pre, hist, ncalls>>

CallUpdateCartTotalPrice(p) ==
    \E id \in CartIds, price \in Prices :
        Issue(p, "updateCartTotalPrice", "tp_get",
              [NoLoc EXCEPT !.id = id, !.amt = price], MaxTotalCalls)

\* updateCartTotalPrice: getCartById, and the new total computed from it.
TP_Get(p) ==
    /\ pc[p] = "tp_get"
    /\ \E c \in LimitOne(CartsById(loc[p].id)) :
        IF c = NoCart
        THEN /\ Answer(p, Thrown("Cart not found"))
             /\ UNCHANGED loc
        ELSE /\ pc' = [pc EXCEPT ![p] = "tp_update"]
             /\ loc' = [loc EXCEPT ![p].cart = [c EXCEPT !.TotalPrice = @ + loc[p].amt]]
             /\ UNCHANGED res
    /\ UNCHANGED <<db, tx, pre, hist, ncalls>>

\* updateCartTotalPrice: the UPDATE with newTotalPrice.toFixed(2).
TP_Update(p) ==
    /\ pc[p] = "tp_update"
    /\ carts' = SetTotalPrice(loc[p].id, ToFixed2(loc[p].cart.TotalPrice))
    /\ Answer(p, [NoRes EXCEPT !.ok = TRUE])
    /\ hist' = [hist EXCEPT !.added[loc[p].id] = @ + loc[p].amt,
                            !.subcent = @ \/ (loc[p].amt % 10 # 0)]
    /\ UNCHANGED <<users, details, groups, records, orders, tx, loc, pre, ncalls>>

----------------------------------------------------------------------------
\* userService

\* findUserByEmail: SELECT ... FROM "Users" WHERE "Email" = :email LIMIT 1
FindUserByEmail(email) == {u \in users : u.Email = email}

\* "Users" without unique index on "Email".
NoUniqueIndex(email) == FALSE

\* The unique index of "Users"."Email": the email is taken by a committed row.
EmailTaken(email) == \E u \in users : u.Email = email

\* The unique index makes an INSERT wait for a transaction that has
\* inserted the same email and has not ended yet.
InsertWaits(p, email) ==
    \E q \in Procs \ {p} : \E u \in tx[q].insUser : u.Email = email

\* The row an INSERT INTO "Users" of request number `call` creates. Row is
\* the identity of the stored row: it tells the row from any row with the
\* same columns inserted by another request, or before.
NewUserRow(email, cartId, call) ==
    [Email |-> email, CartId |-> cartId, Row |-> Cardinality(SeedUsers) + call]

\* UPDATE "Users" SET "CartId" = :newCartId WHERE "Email" = :email
SetUserCart(email, cartId) ==
    {IF u.Email = email THEN [u EXCEPT !.CartId = cartId] ELSE u : u \in users}

\* The DELETE sent without the transaction: it takes effect at once.
OrdersDeletedAtOnce(ids) == {o \in orders : o.IdOrder \notin ids}

\* "Orders" while a DELETE of the rows `ids` made in a transaction is not
\* committed: the statement carries the transaction, the table keeps its rows.
OrdersInTx(ids) == orders

\* "Users" while a DELETE of the rows `rows` made in a transaction is not
\* committed.
UsersInTx(rows) == users

\* transaction.commit() of deleteUser.
OrdersCommitted(ids) == {o \in orders : o.IdOrder \notin ids}

UsersCommitted(rows) == {u \in users : u.Row \notin rows}

CallCreateUser(p) ==
    \E e \in Emails :
        Issue(p, "createUser", "cu_check", [NoLoc EXCEPT !.email = e], MaxUserCalls)

\* createUser ends with an error.
RegisterFailed(p, msg) ==
    /\ Answer(p, Thrown(msg))
    /\ hist' = [hist EXCEPT !.regErr[loc[p].email] = @ + 1]

\* createUser: check if the user already exists.
CU_Check(p) ==
    /\ pc[p] = "cu_check"
    /\ IF FindUserByEmail(loc[p].email) # {}
       THEN RegisterFailed(p, "User with this email already exists")
       ELSE /\ pc' = [pc EXCEPT ![p] = "cu_insert"]
            /\ UNCHANGED <<res, hist>>
    /\ UNCHANGED <<db, tx, loc, pre, ncalls>>

\* createUser: the INSERT in its transaction (cartId is 0 there). A
\* violation of the unique index is caught: rollback, and the error rethrown.
CU_Insert(p) ==
    /\ pc[p] = "cu_insert"
    /\ ~InsertWaits(p, loc[p].email)
    /\ IF EmailTaken(loc[p].email)
       THEN /\ RegisterFailed(p, "SequelizeUniqueConstraintError")
            /\ UNCHANGED tx
       ELSE /\ tx' = [tx EXCEPT ![p] = [NoTx EXCEPT !.open = TRUE,
                                        !.insUser = {NewUserRow(loc[p].email, 0, loc[p].call)}]]
            /\ pc' = [pc EXCEPT ![p] = "cu_commit"]
            /\ UNCHANGED <<res, hist>>
    /\ UNCHANGED <<db, loc, pre, ncalls>>

\* createUser: commit the user creation; createCart is called next.
CU_Commit(p) ==
    /\ pc[p] = "cu_commit"
    /\ users' = users \cup tx[p].insUser
    /\ tx' = [tx EXCEPT ![p] = NoTx]
    /\ pc' = [pc EXCEPT ![p] = "cc_user"]
    /\ UNCHANGED <<carts, details, groups, records, orders, loc, res, pre, hist, ncalls>>

\* createUser: update the user with the id of the new cart (if (newCartId)).
CU_SetCart(p) ==
    /\ pc[p] = "cu_setcart"
    /\ IF loc[p].cart.IdCart # 0
       THEN /\ users' = SetUserCart(loc[p].email, loc[p].cart.IdCart)
            /\ loc' = [loc EXCEPT ![p].cartId = loc[p].cart.IdCart]
       ELSE UNCHANGED <<users, loc>>
    /\ pc' = [pc EXCEPT ![p] = "cu_return"]
    /\ UNCHANGED <<carts, details, groups, records, orders, tx, res, pre, hist, ncalls>>

\* createUser: return the user data, cartId among them.
CU_Return(p) ==
    /\ pc[p] = "cu_return"
    /\ Answer(p, [NoRes EXCEPT !.ok = TRUE, !.val = loc[p].cartId])
    /\ hist' = [hist EXCEPT !.regOk[loc[p].email] = @ + 1]
    /\ UNCHANGED <<db, tx, loc, pre, ncalls>>

CallDeleteUser(p) ==
    \E e \in Emails :
        Issue(p, "deleteUser", "du_find", [NoLoc EXCEPT !.email = e], MaxUserCalls)

\* deleteUser's catch: rollback, throw "Failed to delete user".
DeleteFailed(p, statement) ==
    /\ tx' = [tx EXCEPT ![p] = NoTx]
    /\ Answer(p, [Thrown("Failed to delete user") EXCEPT !.log = statement])

\* deleteUser: the transaction is open; find the user, return false
\* (here 0) when there is none.
DU_Find(p) ==
    /\ pc[p] = "du_find"
    /\ IF FindUserByEmail(loc[p].email) = {}
       THEN /\ Answer(p, [NoRes EXCEPT !.ok = TRUE, !.val = 0])
            /\ UNCHANGED tx
       ELSE /\ pc' = [pc EXCEPT ![p] = "du_orders"]
            /\ tx' = [tx EXCEPT ![p] = [NoTx EXCEPT !.open = TRUE]]
            /\ UNCHANGED res
    /\ UNCHANGED <<db, loc, pre, hist, ncalls>>

\* deleteUser: DELETE FROM "Orders" WHERE "UserEmail" = :email, which the
\* database carries out or refuses.
DU_Orders(p) ==
    /\ pc[p] = "du_orders"
    /\ \/ LET ids == {o.IdOrder : o \in {o \in orders : o.UserEmail = loc[p].email}}
          IN /\ orders' = OrdersInTx(ids)
             /\ tx' = [tx EXCEPT ![p].delOrders = ids]
             /\ pc' = [pc EXCEPT ![p] = "du_user"]
             /\ UNCHANGED res
       \/ /\ DeleteFailed(p, "DELETE FROM Orders")
          /\ UNCHANGED orders
    /\ UNCHANGED <<users, carts, details, groups, records, loc, pre, hist, ncalls>>

\* deleteUser: DELETE FROM "Users" WHERE "Email" = :email, which the
\* database carries out or refuses.
DU_User(p) ==
    /\ pc[p] = "du_user"
    /\ \/ LET rows == {u.Row : u \in {u \in users : u.Email = loc[p].email}}
          IN /\ users' = UsersInTx(rows)
             /\ tx' = [tx EXCEPT ![p].delUsers = rows]
             /\ pc' = [pc EXCEPT ![p] = "du_commit"]
             /\ UNCHANGED res
       \/ /\ DeleteFailed(p, "DELETE FROM Users")
          /\ UNCHANGED users
    /\ UNCHANGED <<carts, details, groups, records, orders, loc, pre, hist, ncalls>>

\* deleteUser: commit, return true (here 1).
DU_Commit(p) ==
    /\ pc[p] = "du_commit"
    /\ orders' = OrdersCommitted(tx[p].delOrders)
    /\ users' = UsersCommitted(tx[p].delUsers)
    /\ tx' = [tx EXCEPT ![p] = NoTx]
    /\ Answer(p, [NoRes EXCEPT !.ok = TRUE, !.val = 1])
    /\ UNCHANGED <<carts, details, groups, records, loc, pre, hist, ncalls>>

----------------------------------------------------------------------------
\* Initial database

InitRecords ==
    \E s1 \in 0..MaxStock, s2 \in 0..MaxStock :
        records = (1 :> [Stock |-> s1]) @@ (2 :> [Stock |-> s2])

InitRequests ==
    /\ tx = [p \in Procs |-> NoTx]
    /\ pc = [p \in Procs |-> "idle"]
    /\ loc = [p \in Procs |-> NoLoc]
    /\ res = [p \in Procs |-> NoRes]
    /\ pre = NoSnap
    /\ hist = NoHist
    /\ ncalls = 0

\* The stock requests on a catalog of two records.
InitStock ==
    /\ users = {}
    /\ carts = {}
    /\ details = {}
    /\ orders = {}
    /\ groups = SeedGroups
    /\ InitRecords
    /\ InitRequests

\* The items cart 1 may hold at the start.
SeedDetails ==
    { {},
      {[IdCartDetail |-> 1, CartId |-> 1, RecordId |-> 1, Amount |-> 1]},
      {[IdCartDetail |-> 1, CartId |-> 1, RecordId |-> 1, Amount |-> 1],
       [IdCartDetail |-> 2, CartId |-> 1, RecordId |-> 2, Amount |-> 2]},
      {[IdCartDetail |-> 1, CartId |-> 1, RecordId |-> 1, Amount |-> 1],
       [IdCartDetail |-> 2, CartId |-> 1, RecordId |-> 1, Amount |-> 2]} }

\* The cart requests: al's cart is enabled or not, its total is 0 or 0.02.
InitCart ==
    /\ users = SeedUsers
    /\ \E en \in BOOLEAN, total \in {0, 20} :
          carts = {[IdCart |-> 1, UserEmail |-> "al", TotalPrice |-> total, Enabled |-> en]}
    /\ details \in SeedDetails
    /\ orders = {}
    /\ groups = SeedGroups
    /\ records = (1 :> [Stock |-> 1]) @@ (2 :> [Stock |-> 0])
    /\ InitRequests

NextCart ==
    \E p \in Procs :
        \/ CallCreateCart(p)
        \/ CC_User(p)
        \/ CC_Active1(p)
        \/ CC_Active2(p)
        \/ CC_Details(p)
        \/ CC_Reset(p)
        \/ CC_Insert(p)
        \/ CallDisableCart(p)
        \/ DC_Get1(p)
        \/ DC_Get2(p)
        \/ DC_Active1(p)
        \/ DC_Active2(p)
        \/ DC_Details(p)
        \/ DC_Loop(p)
        \/ US_Read(p)
        \/ US_Write(p)
        \/ DC_Disable(p)
        \/ CallEnableCart(p)
        \/ EC_Update(p)
        \/ Finish(p)

SpecCart == InitCart /\ [][NextCart]_vars

\* The stock of the two records when the cart requests start.
SeedStock == (1 :> [Stock |-> 1]) @@ (2 :> [Stock |-> 0])

\* Stock moving between al's cart, enabled at the start, and the inventory.
InitTransfer ==
    /\ users = SeedUsers
    /\ carts = {[IdCart |-> 1, UserEmail |-> "al", TotalPrice |-> 0, Enabled |-> TRUE]}
    /\ details \in SeedDetails
    /\ orders = {}
    /\ groups = SeedGroups
    /\ records = SeedStock
    /\ InitRequests

\* disableCart and enableCart requests only.
NextTransfer ==
    \E p \in Procs :
        \/ CallDisableCart(p)
        \/ DC_Get1(p)
        \/ DC_Get2(p)
        \/ DC_Active1(p)
        \/ DC_Active2(p)
        \/ DC_Details(p)
        \/ DC_Loop(p)
        \/ US_Read(p)
        \/ US_Write(p)
        \/ DC_Disable(p)
        \/ CallEnableCart(p)
        \/ EC_Update(p)
        \/ Finish(p)

SpecTransfer == InitTransfer /\ [][NextTransfer]_vars

\* updateStock requests beside disableCart requests, which call updateStock.
NextRace ==
    \E p \in Procs :
        \/ CallUpdateStock(p)
        \/ CallDisableCart(p)
        \/ DC_Get1(p)
        \/ DC_Get2(p)
        \/ DC_Active1(p)
        \/ DC_Active2(p)
        \/ DC_Details(p)
        \/ DC_Loop(p)
        \/ US_Read(p)
        \/ US_Write(p)
        \/ DC_Disable(p)
        \/ Finish(p)

SpecRace == InitTransfer /\ [][NextRace]_vars

\* Status requests, beside the requests that create and enable carts.
NextStatus ==
    \E p \in Procs :
        \/ CallGetCartStatus(p)
        \/ GS_Select(p)
        \/ CallCreateCart(p)
        \/ CC_User(p)
        \/ CC_Active1(p)
        \/ CC_Active2(p)
        \/ CC_Details(p)
        \/ CC_Reset(p)
        \/ CC_Insert(p)
        \/ CallEnableCart(p)
        \/ EC_Update(p)
        \/ Finish(p)

SpecStatus == InitCart /\ [][NextStatus]_vars

\* The carts of the total-price requests: al's holds 0.02, bo's is empty.
SeedCarts ==
    {[IdCart |-> 1, UserEmail |-> "al", TotalPrice |-> 20, Enabled |-> TRUE],
     [IdCart |-> 2, UserEmail |-> "bo", TotalPrice |-> 0, Enabled |-> FALSE]}

InitTotal ==
    /\ users = {[Email |-> "al", CartId |-> 1, Row |-> 1],
                [Email |-> "bo", CartId |-> 2, Row |-> 2]}
    /\ carts = SeedCarts
    /\ details = {}
    /\ orders = {}
    /\ groups = SeedGroups
    /\ records = (1 :> [Stock |-> 1]) @@ (2 :> [Stock |-> 0])
    /\ InitRequests

NextTotal ==
    \E p \in Procs :
        \/ CallUpdateCartTotalPrice(p)
        \/ TP_Get(p)
        \/ TP_Update(p)
        \/ Finish(p)

SpecTotal == InitTotal /\ [][NextTotal]_vars

\* The orders placed so far: two of al, one of bo.
SeedOrders ==
    {[IdOrder |-> 1, UserEmail |-> "al"], [IdOrder |-> 2, UserEmail |-> "al"],
     [IdOrder |-> 3, UserEmail |-> "bo"]}

\* The user requests: al and bo are registered, al's cart is enabled or not.
InitUser ==
    /\ users = SeedUsers
    /\ \E en \in BOOLEAN :
          carts = {[IdCart |-> 1, UserEmail |-> "al", TotalPrice |-> 0, Enabled |-> en]}
    /\ details = {}
    /\ orders = SeedOrders
    /\ groups = SeedGroups
    /\ records = (1 :> [Stock |-> 1]) @@ (2 :> [Stock |-> 0])
    /\ InitRequests

\* Registration and the createCart it calls.
Register(p) ==
    \/ CallCreateUser(p)
    \/ CU_Check(p)
    \/ CU_Insert(p)
    \/ CU_Commit(p)
    \/ CC_User(p)
    \/ CC_Active1(p)
    \/ CC_Active2(p)
    \/ CC_Insert(p)
    \/ CU_SetCart(p)
    \/ CU_Return(p)
    \/ Finish(p)

NextUser ==
    \E p \in Procs :
        \/ Register(p)
        \/ CallDeleteUser(p)
        \/ DU_Find(p)
        \/ DU_Orders(p)
        \/ DU_User(p)
        \/ DU_Commit(p)

SpecUser == InitUser /\ [][NextUser]_vars

\* Registrations only.
NextReg == \E p \in Procs : Register(p)

SpecReg == InitUser /\ [][NextReg]_vars

\* The catalog requests: two groups, two records, no cart.
InitCatalog ==
    /\ users = SeedUsers
    /\ carts = {}
    /\ details = {}
    /\ orders = {}
    /\ groups = SeedGroups
    /\ records = SeedCatalog
    /\ InitRequests

\* Records deleted and created, groups deleted.
NextRecord ==
    \E p \in Procs :
        \/ CallDeleteRecord(p)
        \/ RM_Get(p)
        \/ RM_Delete(p)
        \/ CallCreateRecord(p)
        \/ CR_Group(p)
        \/ CR_Insert(p)
        \/ CallGroupRemove(p)
        \/ GD_Delete(p)
        \/ Finish(p)

SpecRecord == InitCatalog /\ [][NextRecord]_vars

\* Requests to the admin-only routes.
NextRoute ==
    \E p \in Procs :
        \/ CallRoute(p)
        \/ MW_Auth(p)
        \/ MW_Upload(p)
        \/ Dispatch(p)
        \/ CR_Group(p)
        \/ CR_Insert(p)
        \/ UR_Get(p)
        \/ UR_Group(p)
        \/ RU_Update(p)
        \/ RM_Get(p)
        \/ RM_Delete(p)
        \/ GC_Insert(p)
        \/ GU_Update(p)
        \/ GD_Delete(p)
        \/ Finish(p)

SpecRoute == InitCatalog /\ [][NextRoute]_vars

\* Partial updates of records and groups.
NextUpdate ==
    \E p \in Procs :
        \/ CallRecordUpdate(p)
        \/ RU_Update(p)
        \/ CallGroupUpdate(p)
        \/ GU_Update(p)
        \/ Finish(p)

SpecUpdate == InitCatalog /\ [][NextUpdate]_vars

NextStock ==
    \E p \in Procs :
        \/ CallUpdateStock(p)
        \/ US_Read(p)
        \/ US_Write(p)
        \/ Finish(p)

SpecStock == InitStock /\ [][NextStock]_vars

----------------------------------------------------------------------------
\* Properties

\* Request p has ended, it was a call of `op`, and no other request was in
\* flight while it ran: pre is the database as the call found it.
Alone(p, op) == pc[p] = "done" /\ loc[p].op = op /\ pre.valid

\* No request is in flight.
Quiet == \A p \in Procs : pc[p] \in {"idle", "done"}

RECURSIVE SumAmount(_)
SumAmount(ds) ==
    IF ds = {} THEN 0
    ELSE LET d == CHOOSE x \in ds : TRUE
         IN d.Amount + SumAmount(ds \ {d})

\* The Amounts of the items of cart `cartId` that are of record `id`.
InCart(cartId, id) ==
    SumAmount({d \in details : d.CartId = cartId /\ d.RecordId = id})

\* C1: whatever the interleaving of createCart, disableCart and enableCart
\* requests, "Carts" never holds two rows with the same UserEmail, and a
\* createCart that returned has returned the IdCart of the one row of the
\* (trimmed, lower-cased) email it was called with.
C1_OneCartPerUser ==
    /\ \A e \in Emails : Cardinality({c \in carts : c.UserEmail = e}) <= 1
    /\ \A p \in Procs :
          (pc[p] = "done" /\ loc[p].op = "createCart" /\ res[p].ok) =>
             /\ Cardinality({c \in carts : c.UserEmail = Norm(loc[p].email)}) = 1
             /\ \A c \in carts : c.UserEmail = Norm(loc[p].email) => c.IdCart = res[p].val

\* Two overlapping createCart calls for bo, who had no cart, have both returned.
C1_Witness ==
    /\ hist.overlapped
    /\ \A p \in Procs :
          pc[p] = "done" /\ loc[p].op = "createCart" /\ loc[p].email = "bo" /\ res[p].ok

\* C2: a disableCart that ran alone and succeeded, for a user whose cart was
\* enabled, leaves that cart disabled, has added to every record's Stock
\* exactly the Amounts of the cart's items of that record (nothing for a
\* record not in the cart), and has returned the cart's IdCart.
C2_DisableReturnsStock ==
    \A p \in Procs : \A c0 \in pre.carts :
        (/\ Alone(p, "disableCart")
         /\ res[p].ok
         /\ c0.UserEmail = Norm(loc[p].email)
         /\ c0.Enabled)
        => /\ [c0 EXCEPT !.Enabled = FALSE] \in carts
           /\ c0 \notin carts
           /\ res[p].val = c0.IdCart
           /\ DOMAIN records = DOMAIN pre.records
           /\ \A id \in DOMAIN records :
                 records[id].Stock = pre.records[id].Stock + InCart(c0.IdCart, id)

\* A disableCart alone on an enabled cart that held two items of record 1.
C2_Witness ==
    \E p \in Procs : \E c0 \in pre.carts :
        /\ Alone(p, "disableCart") /\ res[p].ok
        /\ c0.UserEmail = Norm(loc[p].email) /\ c0.Enabled
        /\ InCart(c0.IdCart, 1) = 3
        /\ records[1].Stock = pre.records[1].Stock + 3

\* C3: updateStock(id, amount) that ran alone on an existing record, with
\* amount >= -Stock, has set the record's Stock to the old Stock plus
\* amount, has returned that number as newStock, and has left every other
\* record as it was.
C3_UpdateStockAdds ==
    \A p \in Procs :
        (/\ Alone(p, "updateStock")
         /\ loc[p].id \in DOMAIN pre.records
         /\ loc[p].amt >= 0 - pre.records[loc[p].id].Stock)
        => /\ res[p].ok
           /\ res[p].val = pre.records[loc[p].id].Stock + loc[p].amt
           /\ DOMAIN records = DOMAIN pre.records
           /\ records[loc[p].id].Stock = pre.records[loc[p].id].Stock + loc[p].amt
           /\ \A id \in DOMAIN records \ {loc[p].id} : records[id] = pre.records[id]

\* An updateStock alone that took the whole stock of a record.
C3_Witness ==
    \E p \in Procs :
        /\ Alone(p, "updateStock")
        /\ loc[p].id \in DOMAIN pre.records
        /\ pre.records[loc[p].id].Stock = 2
        /\ loc[p].amt = -2
        /\ res[p].ok

\* C4: updateStock that ran alone on an id without record, or with a
\* negative amount larger than the record's Stock, has thrown, has changed
\* no record, and its controller has answered 400 with success = false.
C4_UpdateStockRejects ==
    \A p \in Procs :
        (/\ Alone(p, "updateStock")
         /\ \/ loc[p].id \notin DOMAIN pre.records
            \/ /\ loc[p].id \in DOMAIN pre.records
               /\ loc[p].amt < 0
               /\ 0 - loc[p].amt > pre.records[loc[p].id].Stock)
        => /\ ~res[p].ok
           /\ res[p].err # ""
           /\ res[p].http = 400
           /\ records = pre.records

\* Both rejections have happened: no record 3, and 2 taken from a stock of 1.
C4_Witness ==
    \E p \in Procs :
        /\ Alone(p, "updateStock")
        /\ loc[p].id \in DOMAIN pre.records
        /\ pre.records[loc[p].id].Stock = 1
        /\ loc[p].amt = -2
        /\ res[p].http = 400

\* The total a cart of the total-price requests starts with.
SeedTotal(cartId) ==
    LET c == CHOOSE c \in SeedCarts : c.IdCart = cartId IN c.TotalPrice

\* One updateCartTotalPrice(cartId, priceToAdd) that ran alone: on an
\* existing cart the new TotalPrice is a whole number of cents, the nearest
\* to the old total plus priceToAdd, and nothing else of any cart has
\* changed; on a cartId without cart it threw "Cart not found" and changed
\* nothing.
TotalStep ==
    \A p \in Procs :
        Alone(p, "updateCartTotalPrice") =>
            IF \E c0 \in pre.carts : c0.IdCart = loc[p].id
            THEN /\ res[p].ok
                 /\ \E c0 \in pre.carts : \E c1 \in carts :
                       /\ c0.IdCart = loc[p].id
                       /\ c1 = [c0 EXCEPT !.TotalPrice = c1.TotalPrice]
                       /\ c1.TotalPrice % 10 = 0
                       /\ c1.TotalPrice - (c0.TotalPrice + loc[p].amt) \in -5..5
                       /\ carts = (pre.carts \ {c0}) \cup {c1}
            ELSE /\ res[p].err = "Cart not found"
                 /\ carts = pre.carts

\* After calls none of which overlapped another, every cart's TotalPrice
\* is its initial total plus the priceToAdd values of the calls on it.
TotalIsSum ==
    \A c \in carts : c.TotalPrice = SeedTotal(c.IdCart) + hist.added[c.IdCart]

\* C5 as claimed: each call alone adds priceToAdd, kept to two decimals,
\* and after any sequence of non-overlapping calls a cart's TotalPrice is
\* the initial total plus the sum of all priceToAdd values.
C5_AsClaimed ==
    /\ TotalStep
    /\ (Quiet /\ ~hist.overlapped) => TotalIsSum

\* C5 as amended: the sum holds when every priceToAdd had at most two
\* decimals (a whole number of cents).
C5_TotalAdditive ==
    /\ TotalStep
    /\ (Quiet /\ ~hist.overlapped /\ ~hist.subcent) => TotalIsSum

\* Two calls one after the other have added 0.01 twice to cart 1, and a
\* call alone has just ended.
C5_Witness ==
    /\ ~hist.overlapped /\ ~hist.subcent
    /\ hist.added[1] = 20
    /\ \E p \in Procs : Alone(p, "updateCartTotalPrice") /\ res[p].ok
    /\ \E c \in carts : c.IdCart = 1 /\ c.TotalPrice = 40

\* C6 as claimed: when createUser, run alone for an email not registered
\* before, returns, exactly one enabled cart has that email as UserEmail,
\* and the CartId of the Users row and the returned cartId are its IdCart.
C6_AsClaimed ==
    \A p \in Procs :
        (/\ Alone(p, "createUser")
         /\ res[p].ok
         /\ \A u \in pre.users : u.Email # loc[p].email)
        => /\ Cardinality({c \in carts : c.UserEmail = loc[p].email /\ c.Enabled}) = 1
           /\ \A c \in carts : \A u \in users :
                 (c.UserEmail = loc[p].email /\ c.Enabled /\ u.Email = loc[p].email)
                 => (u.CartId = c.IdCart /\ res[p].val = c.IdCart)

\* Registered at the start.
Registered0 == {u.Email : u \in SeedUsers}

\* No createUser for email e is in flight.
NoRegistering(e) ==
    \A p \in Procs :
        (loc[p].op = "createUser" /\ loc[p].email = e) => pc[p] \in {"idle", "done"}

\* C7: whatever the interleaving of createUser calls, "Users" never holds
\* two rows with one email, and once the calls for an email have ended
\* there is exactly one row with it; if it was not registered before,
\* exactly one of the calls has succeeded and every other call has ended
\* with an error.
C7_UniqueEmails ==
    \A e \in Emails :
        /\ Cardinality({u \in users : u.Email = e}) <= 1
        /\ hist.regOk[e] <= 1
        /\ e \in Registered0 => hist.regOk[e] = 0
        /\ (NoRegistering(e) /\ hist.regOk[e] + hist.regErr[e] > 0)
           => /\ Cardinality({u \in users : u.Email = e}) = 1
              /\ e \notin Registered0 => hist.regOk[e] = 1

\* Two overlapping createUser calls for cy: one succeeded, the other was
\* stopped by the unique index.
C7_Witness ==
    /\ hist.overlapped
    /\ hist.regOk["cy"] = 1
    /\ hist.regErr["cy"] = 1
    /\ \E p \in Procs :
          pc[p] = "done" /\ res[p].err = "SequelizeUniqueConstraintError"

\* The rows of users and orders of email e in a snapshot.
UsersOf(tbl, e) == {u \in tbl : u.Email = e}

OrdersOf(tbl, e) == {o \in tbl : o.UserEmail = e}

\* C8: a deleteUser that runs alone changes nothing before it commits;
\* it returns false without any change when no user has the email;
\* otherwise it returns true with exactly the user's row and the user's
\* orders removed, or throws "Failed to delete user" with no row removed.
C8_DeleteAllOrNothing ==
    \A p \in Procs :
        (loc[p].op = "deleteUser" /\ pre.valid) =>
            /\ pc[p] # "done" => (users = pre.users /\ orders = pre.orders)
            /\ (pc[p] = "done" /\ UsersOf(pre.users, loc[p].email) = {})
               => (res[p].ok /\ res[p].val = 0 /\ users = pre.users /\ orders = pre.orders)
            /\ (pc[p] = "done" /\ UsersOf(pre.users, loc[p].email) # {})
               => \/ /\ res[p].ok /\ res[p].val = 1
                     /\ users = pre.users \ UsersOf(pre.users, loc[p].email)
                     /\ orders = pre.orders \ OrdersOf(pre.orders, loc[p].email)
                  \/ /\ res[p].err = "Failed to delete user"
                     /\ users = pre.users /\ orders = pre.orders

\* deleteUser alone threw after its DELETE of the orders of al had run.
C8_Witness ==
    \E p \in Procs :
        /\ Alone(p, "deleteUser")
        /\ loc[p].email = "al"
        /\ res[p].err = "Failed to delete user"
        /\ res[p].log = "DELETE FROM Users"
        /\ OrdersOf(orders, "al") # {}

\* C9: createCart for an email whose trimmed, lower-cased form has no row
\* in "Users" throws USER_NOT_FOUND, and when it ran alone "Carts" is as
\* it was.
C9_NoUserNoCart ==
    \A p \in Procs :
        (/\ pc[p] = "done" /\ loc[p].op = "createCart"
         /\ \A u \in users : u.Email # Norm(loc[p].email))
        => /\ ~res[p].ok
           /\ res[p].err = "USER_NOT_FOUND"
           /\ pre.valid => carts = pre.carts

\* createCart alone for cy, who is not registered.
C9_Witness ==
    \E p \in Procs :
        /\ Alone(p, "createCart")
        /\ loc[p].email = "cy"
        /\ res[p].err = "USER_NOT_FOUND"

\* C10: enableCart(email) that ran alone: if a row with UserEmail = email
\* and Enabled = false existed, it is now enabled and is what was returned,
\* and no other column or row has changed; otherwise it threw "No disabled
\* cart found for this user to enable" and no row has changed.
C10_EnableCart ==
    \A p \in Procs :
        Alone(p, "enableCart") =>
            /\ users = pre.users /\ records = pre.records /\ orders = pre.orders
            /\ IF \E c0 \in pre.carts : c0.UserEmail = loc[p].email /\ ~c0.Enabled
               THEN \E c0 \in pre.carts :
                      /\ c0.UserEmail = loc[p].email /\ ~c0.Enabled
                      /\ res[p].ok
                      /\ res[p].cart = [c0 EXCEPT !.Enabled = TRUE]
                      /\ carts = (pre.carts \ {c0}) \cup {[c0 EXCEPT !.Enabled = TRUE]}
               ELSE /\ res[p].err = "No disabled cart found for this user to enable"
                    /\ carts = pre.carts

\* enableCart alone has enabled al's cart, which held 0.02, beside bo's cart.
C10_Witness ==
    \E p \in Procs :
        /\ Alone(p, "enableCart")
        /\ res[p].ok
        /\ res[p].cart.TotalPrice = 20
        /\ Cardinality(carts) = 2

\* C11: getCartStatus(email) that ran alone has changed no table; for the
\* empty email it threw "Email is required"; otherwise it returned Enabled
\* equal to the Enabled flag of the cart row whose UserEmail is the
\* trimmed, lower-cased email, or false when there is no such row.
C11_StatusReadOnly ==
    \A p \in Procs :
        Alone(p, "getCartStatus") =>
            /\ users = pre.users /\ carts = pre.carts /\ records = pre.records
            /\ orders = pre.orders /\ groups = pre.groups
            /\ IF loc[p].email = ""
               THEN ~res[p].ok /\ res[p].err = "Email is required"
               ELSE /\ res[p].ok
                    /\ IF \E c \in carts : c.UserEmail = Norm(loc[p].email)
                       THEN \A c \in carts :
                              c.UserEmail = Norm(loc[p].email) => res[p].cart.Enabled = c.Enabled
                       ELSE res[p].cart.Enabled = FALSE

\* getCartStatus alone, asked with an email in capitals, has answered that
\* al's cart is enabled, after a call that enabled it.
C11_Witness ==
    \E p \in Procs :
        /\ Alone(p, "getCartStatus")
        /\ loc[p].email = "AL"
        /\ res[p].cart.Enabled
        /\ ncalls = 2

\* What update(id, data) that ran alone on table `now`, which was `before`,
\* must have done and returned: with a field supplied and a row of that id,
\* exactly the supplied columns of that row have the supplied values, every
\* other column and row is as before, and true was returned; otherwise
\* false was returned and the table is as before.
PartialUpdate(now, before, columns, id, data, returned) ==
    IF DOMAIN data # {} /\ id \in DOMAIN before
    THEN /\ returned = 1
         /\ DOMAIN now = DOMAIN before
         /\ \A c \in columns :
               now[id][c] = IF c \in DOMAIN data THEN data[c] ELSE before[id][c]
         /\ \A r \in DOMAIN now \ {id} : now[r] = before[r]
    ELSE /\ returned = 0
         /\ now = before

\* C19: recordService.update and groupService.update that ran alone have
\* changed exactly the supplied columns of the row with the given id and
\* returned true, or, with no field supplied or no such row, have changed
\* nothing and returned false; the other table is as it was.
C19_PartialUpdate ==
    \A p \in Procs :
        /\ Alone(p, "recordService.update") =>
              /\ PartialUpdate(records, pre.records, RecordColumns,
                               loc[p].id, loc[p].data, res[p].val)
              /\ groups = pre.groups
        /\ Alone(p, "groupService.update") =>
              /\ PartialUpdate(groups, pre.groups, GroupColumns,
                               loc[p].id, loc[p].data, res[p].val)
              /\ records = pre.records

\* After an update of the name of group 1, an update alone has set the
\* Discontinued flag of record 1 and nothing else.
C19_Witness ==
    \E p \in Procs :
        /\ Alone(p, "recordService.update")
        /\ loc[p].id = 1
        /\ DOMAIN loc[p].data = {"Discontinued"}
        /\ res[p].val = 1
        /\ records[1] = [SeedCatalog[1] EXCEPT !.Discontinued = TRUE]
        /\ groups[1] = [SeedGroups[1] EXCEPT !.NameGroup = "Can"]

\* C13: deleteRecord that ran alone: when no record had the id, remove has
\* returned false, the controller has answered 404 "Record not found" and
\* no record has changed; otherwise exactly that record is gone, every
\* other record is as it was, remove has returned true and the controller
\* has answered 204.
C13_RemoveRecord ==
    \A p \in Procs :
        Alone(p, "deleteRecord") =>
            /\ groups = pre.groups
            /\ IF loc[p].id \notin DOMAIN pre.records
               THEN /\ res[p].val = 0
                    /\ res[p].http = 404 /\ res[p].err = "Record not found"
                    /\ records = pre.records
               ELSE /\ res[p].val = 1
                    /\ res[p].http = 204
                    /\ DOMAIN records = DOMAIN pre.records \ {loc[p].id}
                    /\ \A r \in DOMAIN records : records[r] = pre.records[r]

\* deleteRecord alone has deleted record 1 of a catalog of three records,
\* the third created by the request before.
C13_Witness ==
    \E p \in Procs :
        /\ Alone(p, "deleteRecord")
        /\ loc[p].id = 1
        /\ res[p].http = 204
        /\ DOMAIN records = {2, 3}

\* C14 as claimed: createRecord that ran alone has inserted a record, and
\* answered 201, only when the group of its GroupId existed and all of
\* TitleRecord, YearOfPublication, Price, Stock and GroupId were present;
\* otherwise it has answered 400 and "Records" is as it was.
C14_AsClaimed ==
    \A p \in Procs :
        Alone(p, "createRecord") =>
            IF /\ RequiredFields \subseteq DOMAIN loc[p].data
               /\ loc[p].data.GroupId \in DOMAIN pre.groups
            THEN \/ res[p].http = 201 /\ records = pre.records @@ (res[p].val :> records[res[p].val])
                 \/ res[p].http = 400 /\ records = pre.records
            ELSE res[p].http = 400 /\ records = pre.records

\* The statements of the controllers of the admin-only routes.
ControllerStatements ==
    {"cr_group", "cr_insert", "ur_get", "ur_group", "ru_update", "rm_get", "rm_delete",
     "gc_insert", "gu_update", "gd_delete"}

\* C12: on the admin-only routes a controller runs only in a request that
\* authMiddleware('Admin') has passed on; a request it has rejected has
\* ended with its answer, 401 or 403, without reaching the controller, and
\* when it ran alone no table has changed.
C12_AdminRoutesGuarded ==
    \A p \in Procs :
        /\ pc[p] \in ControllerStatements => loc[p].reached
        /\ loc[p].reached => loc[p].passed
        /\ (pc[p] = "done" /\ loc[p].op \in Controllers /\ ~loc[p].passed) =>
              /\ ~loc[p].reached
              /\ res[p].http \in {401, 403}
              /\ pre.valid => /\ records = pre.records /\ groups = pre.groups
                              /\ users = pre.users /\ carts = pre.carts
                              /\ orders = pre.orders

\* After a createGroup of an Admin, a deleteGroup with the token of a User
\* has been rejected.
C12_Witness ==
    \E p \in Procs :
        /\ Alone(p, "deleteGroup")
        /\ loc[p].cred = "User"
        /\ res[p].http = 403
        /\ DOMAIN groups = {1, 2, 3}

\* The Amounts of the items of record `id` that are in enabled carts.
Held(id) ==
    SumAmount({d \in details :
                 d.RecordId = id /\ \E c \in carts : c.IdCart = d.CartId /\ c.Enabled})

\* C15 as claimed: after any sequence of disableCart and enableCart calls,
\* one after the other, the Stock of every record plus the Amounts of its
\* items in enabled carts is what it was at the start.
C15_AsClaimed ==
    (Quiet /\ ~hist.overlapped) =>
        \A id \in DOMAIN records :
            records[id].Stock + Held(id) = SeedStock[id].Stock + InCart(1, id)

\* C16 as claimed: disableCart that ran alone for a user whose cart was
\* already disabled has left every record's Stock and every cart as it was.
C16_AsClaimed ==
    \A p \in Procs : \A c0 \in pre.carts :
        (/\ Alone(p, "disableCart")
         /\ c0.UserEmail = Norm(loc[p].email)
         /\ ~c0.Enabled)
        => /\ records = pre.records
           /\ carts = pre.carts

\* C17 as claimed: whatever the interleaving of updateStock calls, those of
\* disableCart among them, once they have ended the Stock of every record
\* is its initial Stock plus the amounts of the calls that returned.
C17_AsClaimed ==
    Quiet =>
        \A id \in DOMAIN records :
            records[id].Stock = SeedStock[id].Stock + hist.stocked[id]

\* C18 as claimed: whatever the interleaving of updateCartTotalPrice calls
\* (each adding a whole number of cents), once they have ended the
\* TotalPrice of every cart is its initial total plus the priceToAdd
\* values of the calls that completed.
C18_AsClaimed ==
    (Quiet /\ ~hist.subcent) => TotalIsSum

====
